---- MODULE Spec2Model ----
(***************************************************************************)
(* A model of agent_tasks.task_queue: the Task record, the JSONL store and *)
(* the TaskQueue operations (init, add, get, list, next, start, complete,  *)
(* fail, cancel, delete, add_subtask, stats, overdue, export, count,       *)
(* clear), one action per public method.                                   *)
(*                                                                         *)
(* An Optional[T] of the source is a sequence of length at most one:       *)
(* None is << >> and a value v is <<v>>.  A timestamp is the reading of a  *)
(* wall clock that never goes backwards; ISO-8601 strings in one fixed UTC *)
(* format compare as the instants they denote, so created_at is compared   *)
(* as a number, and so is due_at, taken to be written in that format.  The *)
(* fields name, description, metadata and timeout are never read by the    *)
(* operations modelled here and are left out of the record.                *)
(*                                                                         *)
(* Spec, SpecWide, SpecQuery and SpecCycle are runs of one caller, each    *)
(* call one step.  SpecShared is two callers on one store directory, with  *)
(* the read and the write of start as separate steps.                      *)
(***************************************************************************)
EXTENDS Integers, Sequences, FiniteSets, TLC

\* ------------------------------------------------------------------ bounds
\* Number of add calls in a run; add assigns the ids 1..MaxTasks in turn.
MaxTasks == 2
\* Number of add calls in a run of SpecWide.
WideTasks == 3
\* Last reading of the clock; at MaxTime the clock stands still.
MaxTime == 1
\* Longest depends_on list passed to add.
MaxDeps == 2
\* Number of add calls in a run of SpecCycle.
CycleTasks == 3
\* Number of add calls in a run of SpecShared.
SharedTasks == 3
\* Number of add calls in a run of SpecQuery.
QueryTasks == 2
\* Largest limit passed to list.
MaxLimit == 3
\* Number of add calls in a run of SpecRetry.
RetryTasks == 2
\* Largest max_retries of the configurations of SpecRetry.
MaxBudget == 3
\* Number of add calls in a run of SpecExecutor.
ExecTasks == 3
\* Number of add calls in a run of SpecDrain.
DrainTasks == 3
\* Number of add and add_subtask calls that create a task in a run of
\* SpecSubtask.
SubTasks == 3

\* ------------------------------------------------------- program constants
PENDING == "pending"
RUNNING == "running"
DONE == "done"
FAILED == "failed"
BLOCKED == "blocked"

Statuses == {PENDING, RUNNING, DONE, FAILED, BLOCKED}

DefaultPriority == 3
MinPriority == 1
MaxPriority == 5

\* max_retries values of the configurations a TaskQueue is built with.
MaxRetriesChoices == {1, 2}

None == << >>
Some(v) == <<v>>

Max(a, b) == IF a >= b THEN a ELSE b
Min(a, b) == IF a <= b THEN a ELSE b

\* ------------------------------------------------------------------ inputs
\* An id that no task ever gets, such as "nope".
UnknownId == 0

\* The ids a caller can name: UnknownId and the ids add hands out.
TaskIds ==
    UnknownId..Max(Max(Max(MaxTasks, WideTasks), Max(QueryTasks, SharedTasks)),
                   Max(Max(CycleTasks, RetryTasks),
                       Max(Max(ExecTasks, DrainTasks), SubTasks)))

RECURSIVE IncreasingSeqs(_, _)
\* The strictly increasing sequences over UnknownId..m of length at most k.
IncreasingSeqs(m, k) ==
    IF m < UnknownId \/ k = 0 THEN {<< >>}
    ELSE IncreasingSeqs(m - 1, k)
         \cup {Append(s, m) : s \in IncreasingSeqs(m - 1, k - 1)}

\* depends_on arguments when `fresh` is the next id to hand out: any list
\* of UnknownId and of ids handed out before, stored or deleted since.  A
\* caller cannot name the random id of a task not yet created.
DepLists(fresh) == IncreasingSeqs(fresh - 1, MaxDeps)

\* depends_on arguments over the ids of a whole run: a list may name an id
\* no task has yet and a later add hands out (uuid4 can return any id),
\* the new task's own included.
DepListsAhead(last) ==
    {d \in IncreasingSeqs(last, MaxDeps) :
        \A k \in 1..Len(d) : d[k] # UnknownId}

\* priority arguments: omitted, below the range, above the range.
PriorityArgs == {None, Some(0), Some(7)}

\* tags arguments of add; a list also stands for the omitted argument.
TagLists == {<< >>, <<"ops">>, <<"ops", "db">>}

\* due_at arguments of add: omitted, before the first reading of the
\* clock, at the first reading.
DueArgs == {None, Some(0 - 1), Some(0)}

\* status, tag, limit and fmt arguments of the queries.
StatusArgs == {None} \cup {Some(st) : st \in Statuses}
TagArgs == {None, Some("ops"), Some("db")}
LimitArgs == 0..MaxLimit
Formats == {"md", "json"}

\* **kwargs of add_subtask: for each keyword, None when it is not passed
\* and the value when it is.
KwargsChoices ==
    [priority : {None, Some(5)},
     depends_on_parent : {None, Some(TRUE), Some(FALSE)}]

Results == {Some("ok")}
Errors == {Some("boom")}

VARIABLES
    store_exists,   \* the store directory exists
    store,          \* tasks.jsonl: the sequence of persisted records
    config,         \* self._config of the TaskQueue
    now,            \* last reading of datetime.now(timezone.utc)
    next_id,        \* the next fresh id uuid4 hands out
    raised,         \* the last call ended in FileNotFoundError
    procs,          \* per caller sharing the store: the call it is inside
    observed        \* what the callers of SpecShared were told and did

vars ==
    <<store_exists, store, config, now, next_id, raised, procs, observed>>

\* ------------------------------------------------------------ Task / store
\* Task.__init__ over a full record: every key is present in a stored line.
Task(data) ==
    [id |-> data.id, status |-> data.status, priority |-> data.priority,
     created_at |-> data.created_at, started_at |-> data.started_at,
     completed_at |-> data.completed_at, due_at |-> data.due_at,
     tags |-> data.tags, depends_on |-> data.depends_on,
     subtasks |-> data.subtasks,
     retries |-> data.retries, max_retries |-> data.max_retries,
     result |-> data.result, error |-> data.error]

to_dict(t) ==
    [id |-> t.id, status |-> t.status, priority |-> t.priority,
     created_at |-> t.created_at, started_at |-> t.started_at,
     completed_at |-> t.completed_at, due_at |-> t.due_at,
     tags |-> t.tags, depends_on |-> t.depends_on,
     subtasks |-> t.subtasks,
     retries |-> t.retries, max_retries |-> t.max_retries,
     result |-> t.result, error |-> t.error]

_load_all(file) == [i \in 1..Len(file) |-> Task(file[i])]

_save_all(tasks) == [i \in 1..Len(tasks) |-> to_dict(tasks[i])]

\* Index of the first task with this id, 0 when there is none.
_find(task_id, tasks) ==
    IF \E i \in 1..Len(tasks) : tasks[i].id = task_id
    THEN CHOOSE i \in 1..Len(tasks) :
            /\ tasks[i].id = task_id
            /\ \A j \in 1..(i - 1) : tasks[j].id # task_id
    ELSE 0

\* The outcome of a call: the tasks in memory, whether they were written
\* back, and the value returned.
Outcome(tasks, saved, ret) == [tasks |-> tasks, saved |-> saved, ret |-> ret]

\* ------------------------------------------------------------- operations
\* unfinished without its second clause: an id the store does not hold is
\* not counted.
unfinished_stored_only(depends_on, all_tasks) ==
    SelectSeq(depends_on, LAMBDA d :
        \E i \in 1..Len(all_tasks) :
            all_tasks[i].id = d /\ all_tasks[i].status # DONE)

\* The ids of depends_on that add counts as unfinished: stored with a status
\* other than DONE, or not stored at all.
unfinished(depends_on, all_tasks) ==
    SelectSeq(depends_on, LAMBDA d :
        \/ \E i \in 1..Len(all_tasks) :
              all_tasks[i].id = d /\ all_tasks[i].status # DONE
        \/ ~ \E i \in 1..Len(all_tasks) : all_tasks[i].id = d)

\* The clamp without its lower end: min(5, p).
clamp_priority_upper_only(priority, cfg) ==
    LET p == IF priority = None THEN cfg.default_priority ELSE priority[1]
    IN  Min(MaxPriority, p)

clamp_priority(priority, cfg) ==
    LET p == IF priority = None THEN cfg.default_priority ELSE priority[1]
    IN  Max(MinPriority, Min(MaxPriority, p))

\* The status add gives the new task.
initial_status(depends_on, all_tasks) ==
    IF depends_on # << >> /\ unfinished(depends_on, all_tasks) # << >>
    THEN BLOCKED
    ELSE PENDING

\* add: builds the task, decides BLOCKED or PENDING, appends one line.
add(file, id, t, priority, tags, depends_on, due_at, cfg) ==
    LET task == [id |-> id,
                 status |-> initial_status(depends_on, _load_all(file)),
                 priority |-> clamp_priority(priority, cfg),
                 created_at |-> t, started_at |-> None,
                 completed_at |-> None, due_at |-> due_at,
                 tags |-> tags, depends_on |-> depends_on,
                 subtasks |-> << >>,
                 retries |-> 0, max_retries |-> cfg.max_retries,
                 result |-> None, error |-> None]
    IN  Outcome(Append(file, to_dict(task)), TRUE, Some(task))

\* The sort key with the priority not negated: lowest priority first.
KeyLess_ascending(a, b) ==
    \/ a.priority < b.priority
    \/ a.priority = b.priority /\ a.created_at < b.created_at

\* The sort key of next: priority descending, then created_at ascending.
KeyLess(a, b) ==
    \/ (0 - a.priority) < (0 - b.priority)
    \/ a.priority = b.priority /\ a.created_at < b.created_at

RECURSIVE InsertSorted(_, _)
\* x placed after every element that does not come after it.
InsertSorted(x, s) ==
    IF s = << >> THEN <<x>>
    ELSE IF KeyLess(x, Head(s)) THEN <<x>> \o s
    ELSE <<Head(s)>> \o InsertSorted(x, Tail(s))

RECURSIVE Sorted(_)
\* list.sort by the key: a stable sort.
Sorted(s) ==
    IF s = << >> THEN << >>
    ELSE InsertSorted(s[Len(s)], Sorted(SubSeq(s, 1, Len(s) - 1)))

\* The filter of next that lets BLOCKED tasks through.
is_candidate_or_blocked(t) == t.status \in {PENDING, BLOCKED}

is_candidate(t) == t.status = PENDING

\* next that hands the task out: it marks it RUNNING and writes the store.
next_and_start(tasks) ==
    LET pending == SelectSeq(tasks, is_candidate)
    IN  IF pending = << >> THEN Outcome(tasks, FALSE, None)
        ELSE LET i == _find(Sorted(pending)[1].id, tasks)
                 new == [tasks EXCEPT ![i].status = RUNNING]
             IN  Outcome(new, TRUE, Some(new[i]))

next(tasks) ==
    LET pending == SelectSeq(tasks, is_candidate)
    IN  IF pending = << >> THEN Outcome(tasks, FALSE, None)
        ELSE Outcome(tasks, FALSE, Some(Sorted(pending)[1]))

\* start that also accepts a task already RUNNING.
can_start_or_running(task) == task.status \in {PENDING, BLOCKED, RUNNING}

\* start that refuses a BLOCKED task.
can_start_pending_only(task) == task.status = PENDING

can_start(task) == task.status \in {PENDING, BLOCKED}

\* start without its _save_all: the caller gets the RUNNING task, the file
\* keeps the old record.
start_without_save(tasks, task_id, t) ==
    LET i == _find(task_id, tasks)
    IN  IF i = 0 \/ ~ can_start(tasks[i]) THEN Outcome(tasks, FALSE, None)
        ELSE LET new == [tasks EXCEPT ![i].status = RUNNING,
                                      ![i].started_at = Some(t)]
             IN  Outcome(tasks, FALSE, Some(new[i]))

start(tasks, task_id, t) ==
    LET i == _find(task_id, tasks)
    IN  IF i = 0 \/ ~ can_start(tasks[i]) THEN Outcome(tasks, FALSE, None)
        ELSE LET new == [tasks EXCEPT ![i].status = RUNNING,
                                      ![i].started_at = Some(t)]
             IN  Outcome(new, TRUE, Some(new[i]))

\* done_ids without the status test: every stored id.
done_ids_every_stored(completed_id, tasks) ==
    {tasks[i].id : i \in 1..Len(tasks)} \cup {completed_id}

\* done_ids without the tasks completed earlier: the completed id alone.
done_ids_completed_only(completed_id, tasks) == {completed_id}

\* The ids of the DONE tasks, the completed id among them.
done_ids(completed_id, tasks) ==
    {tasks[i].id : i \in {j \in 1..Len(tasks) : tasks[j].status = DONE}}
    \cup {completed_id}

\* _unblock_dependents with any() for all(): one DONE dependency is enough.
_unblock_dependents_any(completed_id, tasks) ==
    [i \in 1..Len(tasks) |->
        IF /\ tasks[i].status = BLOCKED
           /\ tasks[i].depends_on # << >>
           /\ \E k \in 1..Len(tasks[i].depends_on) :
                  tasks[i].depends_on[k] \in done_ids(completed_id, tasks)
        THEN [tasks[i] EXCEPT !.status = PENDING]
        ELSE tasks[i]]

\* _unblock_dependents that looks for the completed id only: a BLOCKED task
\* naming it becomes PENDING whatever else it depends on.
_unblock_dependents_on_completed(completed_id, tasks) ==
    [i \in 1..Len(tasks) |->
        IF /\ tasks[i].status = BLOCKED
           /\ \E k \in 1..Len(tasks[i].depends_on) :
                  tasks[i].depends_on[k] = completed_id
        THEN [tasks[i] EXCEPT !.status = PENDING]
        ELSE tasks[i]]

\* _unblock_dependents without the status test: every task whose
\* depends_on lies within the DONE ids becomes PENDING, whatever it was.
_unblock_dependents_any_status(completed_id, tasks) ==
    [i \in 1..Len(tasks) |->
        IF /\ tasks[i].depends_on # << >>
           /\ \A k \in 1..Len(tasks[i].depends_on) :
                  tasks[i].depends_on[k] \in done_ids(completed_id, tasks)
        THEN [tasks[i] EXCEPT !.status = PENDING]
        ELSE tasks[i]]

\* Every BLOCKED task with a non-empty depends_on that lies within the DONE
\* ids becomes PENDING.
_unblock_dependents(completed_id, tasks) ==
    [i \in 1..Len(tasks) |->
        IF /\ tasks[i].status = BLOCKED
           /\ tasks[i].depends_on # << >>
           /\ \A k \in 1..Len(tasks[i].depends_on) :
                  tasks[i].depends_on[k] \in done_ids(completed_id, tasks)
        THEN [tasks[i] EXCEPT !.status = PENDING]
        ELSE tasks[i]]

\* complete that also accepts a task never started.
can_complete_or_pending(task) == task.status \in {RUNNING, PENDING}

can_complete(task) == task.status = RUNNING

\* complete without the call of _unblock_dependents.
complete_without_unblock(tasks, task_id, t, result) ==
    LET i == _find(task_id, tasks)
    IN  IF i = 0 \/ ~ can_complete(tasks[i]) THEN Outcome(tasks, FALSE, None)
        ELSE LET done == [tasks EXCEPT ![i].status = DONE,
                                       ![i].completed_at = Some(t),
                                       ![i].result = result]
             IN  Outcome(done, TRUE, Some(done[i]))

complete(tasks, task_id, t, result) ==
    LET i == _find(task_id, tasks)
    IN  IF i = 0 \/ ~ can_complete(tasks[i]) THEN Outcome(tasks, FALSE, None)
        ELSE LET done == [tasks EXCEPT ![i].status = DONE,
                                       ![i].completed_at = Some(t),
                                       ![i].result = result]
                 new == _unblock_dependents(task_id, done)
             IN  Outcome(new, TRUE, Some(new[i]))

\* fail without its status test.
can_fail_any(task) == TRUE

can_fail(task) == task.status = RUNNING

\* The retry test off by one.
has_budget_inclusive(retries, max_retries) == retries <= max_retries

has_budget(retries, max_retries) == retries < max_retries

\* fail that tests the budget before it counts the attempt.
fail_counting_after_test(tasks, task_id, t, error) ==
    LET i == _find(task_id, tasks)
    IN  IF i = 0 \/ ~ can_fail(tasks[i]) THEN Outcome(tasks, FALSE, None)
        ELSE LET retries == tasks[i].retries + 1
                 new == IF has_budget(tasks[i].retries, tasks[i].max_retries)
                        THEN [tasks EXCEPT ![i].retries = retries,
                                           ![i].status = PENDING,
                                           ![i].error = error]
                        ELSE [tasks EXCEPT ![i].retries = retries,
                                           ![i].status = FAILED,
                                           ![i].completed_at = Some(t),
                                           ![i].error = error]
             IN  Outcome(new, TRUE, Some(new[i]))

fail(tasks, task_id, t, error) ==
    LET i == _find(task_id, tasks)
    IN  IF i = 0 \/ ~ can_fail(tasks[i]) THEN Outcome(tasks, FALSE, None)
        ELSE LET retries == tasks[i].retries + 1
                 new == IF has_budget(retries, tasks[i].max_retries)
                        THEN [tasks EXCEPT ![i].retries = retries,
                                           ![i].status = PENDING,
                                           ![i].error = error]
                        ELSE [tasks EXCEPT ![i].retries = retries,
                                           ![i].status = FAILED,
                                           ![i].completed_at = Some(t),
                                           ![i].error = error]
             IN  Outcome(new, TRUE, Some(new[i]))

\* cancel that refuses only a RUNNING task.
can_cancel_not_running(task) == task.status # RUNNING

can_cancel(task) == task.status \in {PENDING, BLOCKED}

\* cancel that counts as one more attempt and leaves error alone.
cancel_as_fail(tasks, task_id, t) ==
    LET i == _find(task_id, tasks)
    IN  IF i = 0 \/ ~ can_cancel(tasks[i]) THEN Outcome(tasks, FALSE, None)
        ELSE LET new == [tasks EXCEPT ![i].status = FAILED,
                                      ![i].completed_at = Some(t),
                                      ![i].retries = @ + 1]
             IN  Outcome(new, TRUE, Some(new[i]))

cancel(tasks, task_id, t) ==
    LET i == _find(task_id, tasks)
    IN  IF i = 0 \/ ~ can_cancel(tasks[i]) THEN Outcome(tasks, FALSE, None)
        ELSE LET new == [tasks EXCEPT ![i].status = FAILED,
                                      ![i].completed_at = Some(t),
                                      ![i].error = Some("Cancelled")]
             IN  Outcome(new, TRUE, Some(new[i]))

\* delete that also removes the tasks depending on the deleted one.
delete_cascade(tasks, task_id) ==
    LET new == SelectSeq(tasks, LAMBDA x :
                   /\ x.id # task_id
                   /\ \A k \in 1..Len(x.depends_on) : x.depends_on[k] # task_id)
    IN  IF Len(new) = Len(tasks) THEN Outcome(tasks, FALSE, Some(FALSE))
        ELSE Outcome(new, TRUE, Some(TRUE))

delete(tasks, task_id) ==
    LET new == SelectSeq(tasks, LAMBDA x : x.id # task_id)
    IN  IF Len(new) = Len(tasks) THEN Outcome(tasks, FALSE, Some(FALSE))
        ELSE Outcome(new, TRUE, Some(TRUE))

clear(tasks) == Outcome(<< >>, TRUE, Some(Len(tasks)))

\* How a call ended: an Outcome, and the exception it raised, if any.
Ended(tasks, saved, ret, exc) ==
    [tasks |-> tasks, saved |-> saved, ret |-> ret, exc |-> exc]

\* The keywords add takes besides name.
AddKeywords ==
    {"description", "priority", "tags", "depends_on", "metadata", "timeout",
     "due_at"}

\* The keywords of kwargs that were passed.
Passed(kwargs) == {k \in DOMAIN kwargs : kwargs[k] # None}

\* kwargs.get("depends_on_parent"), as a truth value.
wants_parent(kwargs) ==
    kwargs.depends_on_parent # None /\ kwargs.depends_on_parent[1]

\* add_subtask: nothing for an unknown parent; otherwise add(name,
\* depends_on=..., **kwargs), which Python rejects with TypeError, before
\* add runs, when kwargs holds a keyword add does not take or depends_on
\* a second time; then the parent, loaded again, gets the new id appended
\* to its subtasks and all tasks are written back.
add_subtask(file, id, t, parent_id, kwargs, cfg) ==
    IF _find(parent_id, _load_all(file)) = 0
    THEN Ended(_load_all(file), FALSE, None, None)
    ELSE IF \/ Passed(kwargs) \ AddKeywords # {}
            \/ "depends_on" \in Passed(kwargs)
    THEN Ended(_load_all(file), FALSE, None, Some("TypeError"))
    ELSE LET subtask == add(file, id, t, kwargs.priority, << >>,
                            IF wants_parent(kwargs) THEN <<parent_id>>
                            ELSE << >>,
                            None, cfg)
             tasks == _load_all(subtask.tasks)
             i == _find(parent_id, tasks)
             new == [tasks EXCEPT ![i].subtasks = Append(@, subtask.ret[1].id)]
         IN  Ended(new, TRUE, subtask.ret, None)

\* ---------------------------------------------------------------- queries
get(tasks, task_id) ==
    LET i == _find(task_id, tasks)
    IN  Outcome(tasks, FALSE, IF i = 0 THEN None ELSE Some(tasks[i]))

\* The truth value Python gives an Optional[str]: None and "" are false.
Truthy(opt) == opt # None /\ opt[1] # ""

\* s[from:] of a Python list: a negative index counts from the end, and
\* -0 is 0, the start of the list.
slice_from(s, from) ==
    LET first == IF from < 0 THEN Max(Len(s) + from, 0)
                 ELSE Min(from, Len(s))
    IN  SubSeq(s, first + 1, Len(s))

list(tasks, status, tag, limit) ==
    LET by_status == IF Truthy(status)
                     THEN SelectSeq(tasks, LAMBDA x : x.status = status[1])
                     ELSE tasks
        by_tag == IF Truthy(tag)
                  THEN SelectSeq(by_status, LAMBDA x :
                           \E k \in 1..Len(x.tags) : x.tags[k] = tag[1])
                  ELSE by_status
    IN  Outcome(tasks, FALSE, Some(slice_from(by_tag, 0 - limit)))

RECURSIVE count_statuses_set(_, _)
\* The loop of stats with an assignment for the increment: counts[s] = 1.
count_statuses_set(tasks, counts) ==
    IF tasks = << >> THEN counts
    ELSE count_statuses_set(Tail(tasks),
                            [counts EXCEPT ![Head(tasks).status] = 1])

RECURSIVE count_statuses(_, _)
\* The loop of stats: one more for the status of each task in turn.
count_statuses(tasks, counts) ==
    IF tasks = << >> THEN counts
    ELSE count_statuses(Tail(tasks),
                        [counts EXCEPT ![Head(tasks).status] = @ + 1])

stats(tasks) ==
    LET counts == count_statuses(tasks, [s \in Statuses |-> 0])
    IN  Outcome(tasks, FALSE,
                Some([k \in Statuses \cup {"total"} |->
                         IF k = "total" THEN Len(tasks) ELSE counts[k]]))

overdue(tasks, t) ==
    Outcome(tasks, FALSE,
            Some(SelectSeq(tasks, LAMBDA x :
                     /\ x.due_at # None
                     /\ x.due_at[1] < t
                     /\ x.status \notin {DONE, FAILED})))

status_order == <<RUNNING, PENDING, BLOCKED, DONE, FAILED>>

\* export: the full dump for "json"; otherwise the report, one section for
\* each status of status_order that has tasks, then the totals line.
export(tasks, fmt) ==
    IF fmt = "json"
    THEN Outcome(tasks, FALSE,
                 Some([i \in 1..Len(tasks) |-> to_dict(tasks[i])]))
    ELSE LET group(st) == SelectSeq(tasks, LAMBDA x : x.status = st)
             sections == SelectSeq(
                 [k \in 1..Len(status_order) |->
                     [status |-> status_order[k],
                      count |-> Len(group(status_order[k])),
                      items |-> group(status_order[k])]],
                 LAMBDA g : g.items # << >>)
             s == stats(tasks).ret[1]
         IN  Outcome(tasks, FALSE,
                     Some([title |-> "# Task Report", sections |-> sections,
                           total |-> s["total"], done |-> s[DONE],
                           pending |-> s[PENDING], failed |-> s[FAILED]]))

count(tasks) == Outcome(tasks, FALSE, Some(Len(tasks)))

\* ---------------------------------------------------------------- actions
\* What datetime.now can return after it returned `now`, on a clock that
\* stands still from `lim` on.
ClockReadings(lim) == {t \in now..(now + 1) : t <= lim}

\* Path.is_dir that answers yes for a directory that is not there.
is_dir_assumed == TRUE

\* self.store.is_dir(): the store directory exists.
is_dir == store_exists

\* _ensure_store on a missing directory: FileNotFoundError, nothing done.
Raises ==
    /\ ~ is_dir
    /\ raised' = TRUE
    /\ UNCHANGED
         <<store_exists, store, config, now, next_id, procs, observed>>

\* The file after a call that loaded it: rewritten only by _save_all.
StoreAfter(r) == IF r.saved THEN _save_all(r.tasks) ELSE store

Persist(r) ==
    /\ store' = StoreAfter(r)
    /\ raised' = FALSE

InitStore ==
    /\ store_exists' = TRUE
    /\ raised' = FALSE
    /\ UNCHANGED <<store, config, now, next_id, procs, observed>>

\* The arguments of one add call.
AddArgs(priorities, taglists, deplists, dues) ==
    [priority : priorities, tags : taglists, depends_on : deplists,
     due_at : dues]

Add(n, args, lim) ==
    \/ Raises
    \/ /\ is_dir
       /\ next_id <= n
       /\ \E t \in ClockReadings(lim), a \in args :
            LET r == add(store, next_id, t, a.priority, a.tags,
                         a.depends_on, a.due_at, config)
            IN  /\ store' = r.tasks
                /\ now' = t
       /\ next_id' = next_id + 1
       /\ raised' = FALSE
       /\ UNCHANGED <<store_exists, config, procs, observed>>

NextTask ==
    \/ Raises
    \/ /\ is_dir
       /\ Persist(next(_load_all(store)))
       /\ UNCHANGED <<store_exists, config, now, next_id, procs, observed>>

Start(id, lim) ==
    \/ Raises
    \/ /\ is_dir
       /\ \E t \in ClockReadings(lim) :
            LET r == start(_load_all(store), id, t)
            IN  /\ Persist(r)
                /\ now' = IF r.saved THEN t ELSE now
       /\ UNCHANGED <<store_exists, config, next_id, procs, observed>>

Complete(id, lim) ==
    \/ Raises
    \/ /\ is_dir
       /\ \E t \in ClockReadings(lim), res \in Results :
            LET r == complete(_load_all(store), id, t, res)
            IN  /\ Persist(r)
                /\ now' = IF r.saved THEN t ELSE now
       /\ UNCHANGED <<store_exists, config, next_id, procs, observed>>

Fail(id, lim) ==
    \/ Raises
    \/ /\ is_dir
       /\ \E t \in ClockReadings(lim), err \in Errors :
            LET r == fail(_load_all(store), id, t, err)
            IN  /\ Persist(r)
                /\ now' = IF r.saved /\ r.ret[1].status = FAILED
                          THEN t ELSE now
       /\ UNCHANGED <<store_exists, config, next_id, procs, observed>>

Cancel(id, lim) ==
    \/ Raises
    \/ /\ is_dir
       /\ \E t \in ClockReadings(lim) :
            LET r == cancel(_load_all(store), id, t)
            IN  /\ Persist(r)
                /\ now' = IF r.saved THEN t ELSE now
       /\ UNCHANGED <<store_exists, config, next_id, procs, observed>>

Delete(id) ==
    \/ Raises
    \/ /\ is_dir
       /\ Persist(delete(_load_all(store), id))
       /\ UNCHANGED <<store_exists, config, now, next_id, procs, observed>>

\* add_subtask: after a TypeError the file is as it was and no id was
\* drawn; for an unknown parent likewise.
AddSubtask(n, parent_id, kwargs, lim) ==
    \/ Raises
    \/ /\ is_dir
       /\ next_id <= n
       /\ \E t \in ClockReadings(lim) :
            LET r == add_subtask(store, next_id, t, parent_id, kwargs, config)
            IN  /\ Persist(r)
                /\ now' = IF r.saved THEN t ELSE now
                /\ next_id' = IF r.saved THEN next_id + 1 ELSE next_id
       /\ UNCHANGED <<store_exists, config, procs, observed>>

Clear ==
    \/ Raises
    \/ /\ is_dir
       /\ Persist(clear(_load_all(store)))
       /\ UNCHANGED <<store_exists, config, now, next_id, procs, observed>>

Get(id) ==
    \/ Raises
    \/ /\ is_dir
       /\ Persist(get(_load_all(store), id))
       /\ UNCHANGED <<store_exists, config, now, next_id, procs, observed>>

List(status, tag, limit) ==
    \/ Raises
    \/ /\ is_dir
       /\ Persist(list(_load_all(store), status, tag, limit))
       /\ UNCHANGED <<store_exists, config, now, next_id, procs, observed>>

Stats ==
    \/ Raises
    \/ /\ is_dir
       /\ Persist(stats(_load_all(store)))
       /\ UNCHANGED <<store_exists, config, now, next_id, procs, observed>>

\* overdue reads the clock first, then loads the store.
Overdue(lim) ==
    \E t \in ClockReadings(lim) :
        /\ now' = t
        /\ \/ /\ ~ is_dir
              /\ raised' = TRUE
              /\ UNCHANGED store
           \/ /\ is_dir
              /\ Persist(overdue(_load_all(store), t))
        /\ UNCHANGED <<store_exists, config, next_id, procs, observed>>

Export(fmt) ==
    \/ Raises
    \/ /\ is_dir
       /\ Persist(export(_load_all(store), fmt))
       /\ UNCHANGED <<store_exists, config, now, next_id, procs, observed>>

Count ==
    \/ Raises
    \/ /\ is_dir
       /\ Persist(count(_load_all(store)))
       /\ UNCHANGED <<store_exists, config, now, next_id, procs, observed>>

\* The callers that share one store directory, each a process of its own.
Callers == {"a", "b"}

\* A caller outside any call.
Idle == [pc |-> "idle", id |-> UnknownId, tasks |-> << >>]

Configs(retries) ==
    [max_retries : retries, default_priority : {DefaultPriority}]

InitWith(retries) ==
    /\ store_exists = FALSE
    /\ store = << >>
    /\ config \in Configs(retries)
    /\ now = 0
    /\ next_id = 1
    /\ raised = FALSE
    /\ procs = [p \in Callers |-> Idle]
    /\ observed = [started |-> {}, overlapped |-> FALSE]

\* Spec: at most MaxTasks tasks, every priority and depends_on argument, no
\* tags and no deadline, a running clock.
Init == InitWith(MaxRetriesChoices)

Next ==
    \/ InitStore
    \/ Add(MaxTasks,
           AddArgs(PriorityArgs, {<< >>}, DepLists(next_id), {None}), MaxTime)
    \/ NextTask
    \/ \E id \in UnknownId..MaxTasks : Start(id, MaxTime)
    \/ \E id \in UnknownId..MaxTasks : Complete(id, MaxTime)
    \/ \E id \in UnknownId..MaxTasks : Fail(id, MaxTime)
    \/ \E id \in UnknownId..MaxTasks : Cancel(id, MaxTime)
    \/ \E id \in UnknownId..MaxTasks : Delete(id)
    \/ Clear

Spec == Init /\ [][Next]_vars

\* SpecWide: at most WideTasks tasks and every depends_on list for them,
\* with the priority left to its default, one retry budget and all calls
\* made within one reading of the clock.
InitWide == InitWith({1})

NextWide ==
    \/ InitStore
    \/ Add(WideTasks, AddArgs({None}, {<< >>}, DepLists(next_id), {None}), 0)
    \/ NextTask
    \/ \E id \in UnknownId..WideTasks : Start(id, 0)
    \/ \E id \in UnknownId..WideTasks : Complete(id, 0)
    \/ \E id \in UnknownId..WideTasks : Fail(id, 0)
    \/ \E id \in UnknownId..WideTasks : Cancel(id, 0)
    \/ \E id \in UnknownId..WideTasks : Delete(id)
    \/ Clear

SpecWide == InitWide /\ [][NextWide]_vars

\* SpecQuery: at most QueryTasks tasks with tags and deadlines, and every
\* operation of the engine, the queries included, within one reading of
\* the clock.
InitQuery == InitWith({1})

NextQuery ==
    \/ InitStore
    \/ Add(QueryTasks,
           AddArgs({None}, TagLists, DepLists(next_id), DueArgs), 0)
    \/ \E id \in UnknownId..QueryTasks : Get(id)
    \/ \E st \in StatusArgs, tag \in TagArgs, n \in LimitArgs :
          List(st, tag, n)
    \/ NextTask
    \/ \E id \in UnknownId..QueryTasks : Start(id, 0)
    \/ \E id \in UnknownId..QueryTasks : Complete(id, 0)
    \/ \E id \in UnknownId..QueryTasks : Fail(id, 0)
    \/ \E id \in UnknownId..QueryTasks : Cancel(id, 0)
    \/ \E id \in UnknownId..QueryTasks : Delete(id)
    \/ Stats
    \/ Overdue(0)
    \/ \E fmt \in Formats : Export(fmt)
    \/ Count
    \/ Clear

SpecQuery == InitQuery /\ [][NextQuery]_vars

\* SpecCycle: SpecWide with depends_on lists that may name the ids of
\* tasks added later, so that dependency cycles form.
InitCycle == InitWith({1})

NextCycle ==
    \/ InitStore
    \/ Add(CycleTasks,
           AddArgs({None}, {<< >>}, DepListsAhead(CycleTasks), {None}), 0)
    \/ NextTask
    \/ \E id \in UnknownId..CycleTasks : Start(id, 0)
    \/ \E id \in UnknownId..CycleTasks : Complete(id, 0)
    \/ \E id \in UnknownId..CycleTasks : Fail(id, 0)
    \/ \E id \in UnknownId..CycleTasks : Cancel(id, 0)
    \/ \E id \in UnknownId..CycleTasks : Delete(id)
    \/ Clear

SpecCycle == InitCycle /\ [][NextCycle]_vars

\* max_retries values of SpecRetry: config.json takes any integer, so a
\* negative one and 0 are among them.
RetryBudgets == (0 - 1)..MaxBudget

\* SpecRetry: SpecWide with fewer tasks and every retry budget.
InitRetry == InitWith(RetryBudgets)

NextRetry ==
    \/ InitStore
    \/ Add(RetryTasks, AddArgs({None}, {<< >>}, DepLists(next_id), {None}), 0)
    \/ NextTask
    \/ \E id \in UnknownId..RetryTasks : Start(id, 0)
    \/ \E id \in UnknownId..RetryTasks : Complete(id, 0)
    \/ \E id \in UnknownId..RetryTasks : Fail(id, 0)
    \/ \E id \in UnknownId..RetryTasks : Cancel(id, 0)
    \/ \E id \in UnknownId..RetryTasks : Delete(id)
    \/ Clear

SpecRetry == InitRetry /\ [][NextRetry]_vars

\* ------------------------------------------------ callers sharing a store
\* A caller inside start: it holds the tasks it loaded.
Loaded(id, tasks) == [pc |-> "loaded", id |-> id, tasks |-> tasks]

\* Another caller is between its _load_all and its _save_all.
OtherLoaded(p) == \E q \in Callers \ {p} : procs[q].pc = "loaded"

\* add without depends_on by caller p: _ensure_store, then one line appended
\* to the file as it is at that moment; the file is not read.
AddAppend(p, n, lim) ==
    \/ procs[p].pc = "idle" /\ Raises
    \/ /\ is_dir
       /\ procs[p].pc = "idle"
       /\ next_id <= n
       /\ \E t \in ClockReadings(lim) :
            LET r == add(store, next_id, t, None, << >>, << >>, None, config)
            IN  /\ store' = r.tasks
                /\ now' = t
       /\ next_id' = next_id + 1
       /\ raised' = FALSE
       /\ observed' = [observed EXCEPT !.overlapped = @ \/ OtherLoaded(p)]
       /\ UNCHANGED <<store_exists, config, procs>>

\* start by caller p, up to the return of _load_all.
StartLoad(p, id) ==
    \/ procs[p].pc = "idle" /\ Raises
    \/ /\ is_dir
       /\ procs[p].pc = "idle"
       /\ procs' = [procs EXCEPT ![p] = Loaded(id, _load_all(store))]
       /\ raised' = FALSE
       /\ UNCHANGED <<store_exists, store, config, now, next_id, observed>>

\* start by caller p, from the return of _load_all: the test, the
\* assignments and _save_all of the tasks it loaded, over the whole file.
StartSave(p, lim) ==
    /\ procs[p].pc = "loaded"
    /\ \E t \in ClockReadings(lim) :
         LET r == start(procs[p].tasks, procs[p].id, t)
         IN  /\ Persist(r)
             /\ now' = IF r.saved THEN t ELSE now
             /\ observed' =
                  [started |-> IF r.ret = None THEN observed.started
                               ELSE observed.started \cup {procs[p].id},
                   overlapped |-> observed.overlapped
                                  \/ (r.saved /\ OtherLoaded(p))]
    /\ procs' = [procs EXCEPT ![p] = Idle]
    /\ UNCHANGED <<store_exists, config, next_id>>

\* SpecShared: two callers on one store, each calling add (no depends_on)
\* and start; the read and the write of a start are separate steps, within
\* one reading of the clock.
InitShared == InitWith({1})

NextShared ==
    \/ InitStore
    \/ \E p \in Callers : AddAppend(p, SharedTasks, 0)
    \/ \E p \in Callers, id \in UnknownId..SharedTasks : StartLoad(p, id)
    \/ \E p \in Callers : StartSave(p, 0)

SpecShared == InitShared /\ [][NextShared]_vars

\* SpecSubtask: at most SubTasks tasks, created by add without
\* dependencies or by add_subtask with any parent id and keywords; tasks
\* are started, completed and deleted, within one reading of the clock.
InitSubtask == InitWith({1})

NextSubtask ==
    \/ InitStore
    \/ Add(SubTasks, AddArgs({None}, {<< >>}, {<< >>}, {None}), 0)
    \/ \E id \in UnknownId..SubTasks, kw \in KwargsChoices :
          AddSubtask(SubTasks, id, kw, 0)
    \/ \E id \in UnknownId..SubTasks : Start(id, 0)
    \/ \E id \in UnknownId..SubTasks : Complete(id, 0)
    \/ \E id \in UnknownId..SubTasks : Delete(id)

SpecSubtask == InitSubtask /\ [][NextSubtask]_vars

\* ------------------------------------------------------------ an executor
\* A caller that holds the task its last next() returned.
Picked(id) == [pc |-> "picked", id |-> id, tasks |-> << >>]

\* t = next() by caller p: it keeps the task returned, none when no task
\* is PENDING.
ExecNext(p) ==
    \/ Raises
    \/ /\ is_dir
       /\ LET r == next(_load_all(store))
          IN  /\ Persist(r)
              /\ procs' = [procs EXCEPT ![p] =
                               IF r.ret = None THEN Idle
                               ELSE Picked(r.ret[1].id)]
       /\ UNCHANGED <<store_exists, config, now, next_id, observed>>

\* start(t.id) by caller p, for the task t its last next() returned.
ExecStart(p, lim) ==
    /\ procs[p].pc = "picked"
    /\ is_dir
    /\ \E t \in ClockReadings(lim) :
         LET r == start(_load_all(store), procs[p].id, t)
         IN  /\ Persist(r)
             /\ now' = IF r.saved THEN t ELSE now
    /\ procs' = [procs EXCEPT ![p] = Idle]
    /\ UNCHANGED <<store_exists, config, next_id, observed>>

\* depends_on arguments of any kind: UnknownId, ids handed out before and
\* ids a later add hands out.
DepListsAny(last) == IncreasingSeqs(last, MaxDeps)

\* SpecExecutor: one caller that starts only what next() returned and
\* never calls delete or clear; add (with any depends_on), complete, fail
\* and cancel are called with any id at any moment, between a next() and
\* its start included.  A budget of 2 lets a task fail and be retried.
InitExecutor == InitWith({2})

NextExecutor ==
    \/ InitStore
    \/ Add(ExecTasks,
           AddArgs({None}, {<< >>}, DepListsAny(ExecTasks), {None}), 0)
    \/ ExecNext("a")
    \/ ExecStart("a", 0)
    \/ \E id \in UnknownId..ExecTasks : Complete(id, 0)
    \/ \E id \in UnknownId..ExecTasks : Fail(id, 0)
    \/ \E id \in UnknownId..ExecTasks : Cancel(id, 0)

SpecExecutor == InitExecutor /\ [][NextExecutor]_vars

\* A caller that holds the task it started.
Started(id) == [pc |-> "started", id |-> id, tasks |-> << >>]

\* The first call of a round of caller p: t = next().
RoundNext(p) == procs[p].pc = "idle" /\ ExecNext(p)

\* The second call of a round: start(t.id).
RoundStart(p, lim) ==
    /\ procs[p].pc = "picked"
    /\ is_dir
    /\ \E t \in ClockReadings(lim) :
         LET r == start(_load_all(store), procs[p].id, t)
         IN  /\ Persist(r)
             /\ now' = IF r.saved THEN t ELSE now
    /\ procs' = [procs EXCEPT ![p] = Started(procs[p].id)]
    /\ UNCHANGED <<store_exists, config, next_id, observed>>

\* The third call of a round: complete(t.id).
RoundComplete(p, lim) ==
    /\ procs[p].pc = "started"
    /\ is_dir
    /\ \E t \in ClockReadings(lim), res \in Results :
         LET r == complete(_load_all(store), procs[p].id, t, res)
         IN  /\ Persist(r)
             /\ now' = IF r.saved THEN t ELSE now
    /\ procs' = [procs EXCEPT ![p] = Idle]
    /\ UNCHANGED <<store_exists, config, next_id, observed>>

\* depends_on arguments that name tasks in the store only, when nothing
\* has been deleted: ids handed out before.
DepListsStored(fresh) ==
    {d \in IncreasingSeqs(fresh - 1, MaxDeps) :
        \A k \in 1..Len(d) : d[k] # UnknownId}

\* SpecDrain: at most DrainTasks tasks, each added with dependencies that
\* are stored at that moment, and one caller taking rounds of next, start,
\* complete; an add may come before, between or inside the rounds, with
\* the priority left to its default.  The caller does not stop: each call
\* of a round that can be made is made.
InitDrain == InitWith({1})

NextDrain ==
    \/ InitStore
    \/ Add(DrainTasks,
           AddArgs({None}, {<< >>}, DepListsStored(next_id), {None}),
           MaxTime)
    \/ RoundNext("a")
    \/ RoundStart("a", MaxTime)
    \/ RoundComplete("a", MaxTime)

SpecDrain ==
    /\ InitDrain
    /\ [][NextDrain]_vars
    /\ WF_vars(RoundNext("a"))
    /\ WF_vars(RoundStart("a", MaxTime))
    /\ WF_vars(RoundComplete("a", MaxTime))

\* ----------------------------------------------------------------- claims
\* The status of the stored task with this id, "absent" when there is none.
StatusIn(tasks, id) ==
    IF _find(id, tasks) = 0 THEN "absent" ELSE tasks[_find(id, tasks)].status

\* Every id of deps belongs to a task of `tasks` whose status is DONE.
AllDepsDone(deps, tasks) ==
    \A k \in 1..Len(deps) : StatusIn(tasks, deps[k]) = DONE

\* A call that did nothing: the empty result, no write, the store as it was.
NoEffect(r, tasks) ==
    /\ r.ret = None
    /\ ~ r.saved
    /\ r.tasks = tasks
    /\ StoreAfter(r) = store

\* C1: whatever the arguments of add and whatever the store holds at the
\* call, the new task is BLOCKED iff some id of depends_on is absent from
\* the store or belongs to a stored task that is not DONE, and PENDING in
\* every other case (an empty depends_on included); it is appended last.
C1_AddStatus ==
    store_exists =>
      \A p \in PriorityArgs, d \in DepLists(next_id),
         t \in ClockReadings(MaxTime) :
        LET r == add(store, next_id, t, p, << >>, d, None, config)
            task == r.ret[1]
        IN  /\ task.status =
                 IF \E k \in 1..Len(d) : StatusIn(store, d[k]) # DONE
                 THEN BLOCKED ELSE PENDING
            /\ task.depends_on = d
            /\ r.tasks = Append(store, task)

\* A task added with a dependency that was DONE before the add: it was
\* created PENDING although depends_on is not empty.
C1_Witness ==
    \E i, j \in 1..Len(store) :
        /\ store[i].status = DONE
        /\ store[j].depends_on = <<store[i].id>>
        /\ store[j].status = PENDING
        /\ store[j].retries = 0
        /\ store[i].completed_at[1] < store[j].created_at

\* C2: a successful complete(A) leaves every task that was BLOCKED PENDING
\* when all its depends_on ids belong to DONE tasks (A counted), and
\* BLOCKED when one of them is absent or not DONE, for all tasks at once.
C2_UnblockOnComplete ==
    \A id \in TaskIds, t \in ClockReadings(0), res \in Results :
        LET tasks == _load_all(store)
            r == complete(tasks, id, t, res)
        IN  r.saved =>
              /\ Len(r.tasks) = Len(tasks)
              /\ \A j \in 1..Len(tasks) :
                    tasks[j].status = BLOCKED =>
                      r.tasks[j].status =
                        IF AllDepsDone(tasks[j].depends_on, r.tasks)
                        THEN PENDING ELSE BLOCKED

\* A store in which completing a RUNNING task promotes one BLOCKED
\* dependent and leaves another dependent of the same task BLOCKED.
C2_Witness ==
    \E id \in TaskIds :
        LET tasks == _load_all(store)
            r == complete(tasks, id, now, Some("ok"))
        IN  /\ r.saved
            /\ \E j, k \in 1..Len(tasks) :
                  /\ tasks[j].status = BLOCKED
                  /\ r.tasks[j].status = PENDING
                  /\ tasks[k].status = BLOCKED
                  /\ r.tasks[k].status = BLOCKED
                  /\ \E m \in 1..Len(tasks[k].depends_on) :
                        tasks[k].depends_on[m] = id

\* C3: fail on a RUNNING task adds exactly 1 to retries and sets error; the
\* task is PENDING when the new retries is below max_retries and FAILED
\* with completed_at set otherwise; on any other task or an unknown id fail
\* returns the empty result and changes nothing.
C3_FailContract ==
    \A id \in TaskIds, t \in ClockReadings(MaxTime), err \in Errors :
        LET tasks == _load_all(store)
            i == _find(id, tasks)
            r == fail(tasks, id, t, err)
        IN  IF i # 0 /\ tasks[i].status = RUNNING
            THEN /\ r.saved
                 /\ r.ret = Some(r.tasks[i])
                 /\ r.tasks[i].retries = tasks[i].retries + 1
                 /\ r.tasks[i].error = err
                 /\ IF r.tasks[i].retries < r.tasks[i].max_retries
                    THEN r.tasks[i].status = PENDING
                    ELSE /\ r.tasks[i].status = FAILED
                         /\ r.tasks[i].completed_at = Some(t)
            ELSE NoEffect(r, tasks)

\* A task that failed twice with a budget of 2: PENDING after the first
\* failure (it was started again), FAILED after the second.
C3_Witness ==
    \E i \in 1..Len(store) :
        /\ store[i].status = FAILED
        /\ store[i].max_retries = 2
        /\ store[i].retries = 2
        /\ store[i].error = Some("boom")
        /\ store[i].completed_at # None

\* C4: start returns the task, RUNNING and with started_at set, exactly
\* when the task exists and is PENDING or BLOCKED; for a RUNNING, DONE or
\* FAILED task and for an unknown id it returns the empty result.
C4_StartContract ==
    \A id \in TaskIds, t \in ClockReadings(MaxTime) :
        LET tasks == _load_all(store)
            i == _find(id, tasks)
            r == start(tasks, id, t)
        IN  IF i # 0 /\ tasks[i].status \in {PENDING, BLOCKED}
            THEN /\ r.saved
                 /\ r.ret = Some(r.tasks[i])
                 /\ r.tasks[i].status = RUNNING
                 /\ r.tasks[i].started_at = Some(t)
            ELSE NoEffect(r, tasks)

\* A task started while BLOCKED: it is RUNNING and its one dependency is a
\* stored task that was never started.
C4_Witness ==
    \E i, j \in 1..Len(store) :
        /\ store[i].status = RUNNING
        /\ store[i].started_at # None
        /\ store[i].depends_on = <<store[j].id>>
        /\ store[j].status = PENDING
        /\ store[j].started_at = None

\* C5: complete makes a task DONE, with completed_at and result set, only
\* when the task exists and is RUNNING; for any other status and for an
\* unknown id it returns the empty result and no task becomes DONE.
C5_CompleteContract ==
    \A id \in TaskIds, t \in ClockReadings(MaxTime), res \in Results :
        LET tasks == _load_all(store)
            i == _find(id, tasks)
            r == complete(tasks, id, t, res)
        IN  /\ IF i # 0 /\ tasks[i].status = RUNNING
               THEN /\ r.saved
                    /\ r.ret = Some(r.tasks[i])
                    /\ r.tasks[i].status = DONE
                    /\ r.tasks[i].completed_at = Some(t)
                    /\ r.tasks[i].result = res
               ELSE NoEffect(r, tasks)
            /\ \A j \in 1..Len(tasks) :
                  r.tasks[j].status = DONE /\ tasks[j].status # DONE
                    => j = i /\ tasks[j].status = RUNNING

\* A task completed after it was started.
C5_Witness ==
    \E i \in 1..Len(store) :
        /\ store[i].status = DONE
        /\ store[i].started_at # None
        /\ store[i].completed_at # None
        /\ store[i].result = Some("ok")

\* C6: next returns none when no stored task is PENDING; otherwise a
\* PENDING task of the highest priority among the PENDING tasks and of the
\* earliest created_at among the PENDING tasks of that priority.
C6_NextSelection ==
    LET tasks == _load_all(store)
        r == next(tasks)
        pending == {i \in 1..Len(tasks) : tasks[i].status = PENDING}
    IN  /\ ~ r.saved
        /\ IF pending = {} THEN r.ret = None
           ELSE /\ r.ret # None
                /\ \E i \in pending : tasks[i] = r.ret[1]
                /\ \A i \in pending :
                      /\ tasks[i].priority <= r.ret[1].priority
                      /\ tasks[i].priority = r.ret[1].priority
                           => r.ret[1].created_at <= tasks[i].created_at

\* next passes over the first, older PENDING task for a later one of higher
\* priority.
C6_Witness ==
    /\ Len(store) = 2
    /\ store[1].status = PENDING
    /\ store[2].status = PENDING
    /\ store[1].priority < store[2].priority
    /\ store[1].created_at < store[2].created_at
    /\ next(_load_all(store)).ret = Some(store[2])

\* C7 as stated: at every step that takes a task out of BLOCKED, to any
\* other status, all its depends_on ids belong to stored DONE tasks.
C7_LeavesBlockedOnlyWhenDepsDone ==
    [][\A i \in 1..Len(store) :
          /\ store[i].status = BLOCKED
          /\ StatusIn(store', store[i].id) \notin {BLOCKED, "absent"}
          => AllDepsDone(store[i].depends_on, store')]_vars

\* C7 as amended: at every step that takes a task from BLOCKED to PENDING
\* all its depends_on ids belong to stored DONE tasks; start and cancel take
\* a BLOCKED task to RUNNING and to FAILED whatever its dependencies are.
C7_PromotedOnlyWhenDepsDone ==
    [][\A i \in 1..Len(store) :
          /\ store[i].status = BLOCKED
          /\ StatusIn(store', store[i].id) = PENDING
          => AllDepsDone(store[i].depends_on, store')]_vars

\* A task promoted from BLOCKED to PENDING: it was added before its
\* dependency completed and has never been started.
C7_Witness ==
    \E i, j \in 1..Len(store) :
        /\ store[i].status = DONE
        /\ store[j].depends_on = <<store[i].id>>
        /\ store[j].status = PENDING
        /\ store[j].retries = 0
        /\ store[j].created_at < store[i].completed_at[1]

\* The status changes the lifecycle allows.
AllowedChanges ==
    {<<PENDING, RUNNING>>, <<BLOCKED, RUNNING>>, <<RUNNING, DONE>>,
     <<RUNNING, PENDING>>, <<RUNNING, FAILED>>, <<PENDING, FAILED>>,
     <<BLOCKED, FAILED>>, <<BLOCKED, PENDING>>}

\* C8: every status change of a stored task is one of PENDING->RUNNING,
\* BLOCKED->RUNNING, RUNNING->DONE, RUNNING->PENDING, RUNNING->FAILED,
\* PENDING->FAILED, BLOCKED->FAILED and BLOCKED->PENDING, the last only in
\* a step that completes some task; so a DONE or FAILED task keeps its
\* status for as long as it is stored, and an id once removed stays absent.
C8_StatusChanges ==
    [][\A id \in TaskIds :
          LET a == StatusIn(store, id)
              b == StatusIn(store', id)
          IN  /\ a # "absent" /\ b # "absent" /\ a # b
                 => /\ <<a, b>> \in AllowedChanges
                    /\ <<a, b>> = <<BLOCKED, PENDING>>
                         => \E other \in TaskIds :
                               /\ StatusIn(store, other) = RUNNING
                               /\ StatusIn(store', other) = DONE
              /\ a \in {DONE, FAILED} => b \in {a, "absent"}
              /\ a = "absent" /\ b # "absent" => id = next_id]_vars

\* A store holding a DONE task and a task FAILED by fail, both terminal.
C8_Witness ==
    \E i, j \in 1..Len(store) :
        /\ store[i].status = DONE
        /\ store[j].status = FAILED
        /\ store[j].retries > 0

\* C9: start, complete, fail and cancel, called on an initialized store
\* with an id that is absent or whose status fails the precondition, return
\* the empty result, do not raise and leave the persisted store as it was.
C9_RejectedCallsChangeNothing ==
    store_exists =>
      /\ ~ raised
      /\ \A id \in TaskIds, t \in ClockReadings(MaxTime),
            res \in Results, err \in Errors :
           LET tasks == _load_all(store)
               a == StatusIn(tasks, id)
           IN  /\ a \notin {PENDING, BLOCKED}
                    => /\ NoEffect(start(tasks, id, t), tasks)
                       /\ NoEffect(cancel(tasks, id, t), tasks)
               /\ a # RUNNING
                    => /\ NoEffect(complete(tasks, id, t, res), tasks)
                       /\ NoEffect(fail(tasks, id, t, err), tasks)

\* A store in which each of the four calls is rejected for some stored
\* task and for some absent id: it holds a RUNNING task, a BLOCKED task
\* whose dependency is that task, and lacks an id.
C9_Witness ==
    /\ store_exists
    /\ \E id \in TaskIds : StatusIn(store, id) = "absent"
    /\ \E i, j \in 1..Len(store) :
          /\ store[i].status = RUNNING
          /\ store[j].status = BLOCKED
          /\ store[j].depends_on = <<store[i].id>>

\* C10: cancel on a PENDING or BLOCKED task makes it FAILED, sets
\* completed_at and sets error to "Cancelled", retries unchanged; on a
\* RUNNING, DONE or FAILED task and on an unknown id it returns the empty
\* result.
C10_CancelContract ==
    \A id \in TaskIds, t \in ClockReadings(MaxTime) :
        LET tasks == _load_all(store)
            i == _find(id, tasks)
            r == cancel(tasks, id, t)
        IN  IF i # 0 /\ tasks[i].status \in {PENDING, BLOCKED}
            THEN /\ r.saved
                 /\ r.ret = Some(r.tasks[i])
                 /\ r.tasks[i].status = FAILED
                 /\ r.tasks[i].completed_at = Some(t)
                 /\ r.tasks[i].error = Some("Cancelled")
                 /\ r.tasks[i].retries = tasks[i].retries
            ELSE NoEffect(r, tasks)

\* A task cancelled after one failed attempt: FAILED with the marker,
\* completed_at set, and retries still 1 of 2.
C10_Witness ==
    \E i \in 1..Len(store) :
        /\ store[i].status = FAILED
        /\ store[i].error = Some("Cancelled")
        /\ store[i].completed_at # None
        /\ store[i].retries = 1
        /\ store[i].max_retries = 2

\* The sequence s without its i-th element.
RemoveAt(s, i) ==
    [j \in 1..(Len(s) - 1) |-> IF j < i THEN s[j] ELSE s[j + 1]]

\* C11: delete on an id the store does not hold returns false and leaves the
\* store as it was; on a stored id, whatever the task's status, it returns
\* true and the store is the previous one without that one record, every
\* other record unchanged and in the same order, dependents included.
C11_DeleteContract ==
    \A id \in TaskIds :
        LET tasks == _load_all(store)
            i == _find(id, tasks)
            r == delete(tasks, id)
        IN  IF i = 0
            THEN /\ r.ret = Some(FALSE)
                 /\ ~ r.saved
                 /\ StoreAfter(r) = store
            ELSE /\ r.ret = Some(TRUE)
                 /\ r.saved
                 /\ StoreAfter(r) = RemoveAt(store, i)

\* A dependency deleted under its dependent: the dependent was never
\* started, is PENDING with its depends_on intact, and the id it names is
\* no longer stored.
C11_Witness ==
    \E j \in 1..Len(store) :
        /\ store[j].status = PENDING
        /\ store[j].retries = 0
        /\ store[j].started_at = None
        /\ Len(store[j].depends_on) = 1
        /\ store[j].depends_on[1] # UnknownId
        /\ StatusIn(store, store[j].depends_on[1]) = "absent"

\* C12: while the store directory does not exist, every call other than
\* init ends in FileNotFoundError and leaves the store, the configuration
\* and the ids as they were; once the directory exists it stays, and no
\* call ends in that error.
C12_UninitializedStore ==
    [][/\ ~ store_exists /\ ~ store_exists'
          => raised' /\ UNCHANGED <<store, config, next_id>>
       /\ store_exists => store_exists' /\ ~ raised']_vars

\* A call made before init: it raised, and there is still no store.
C12_Witness ==
    /\ ~ store_exists
    /\ raised
    /\ store = << >>
    /\ next_id = 1

\* The tasks in memory after each call of start, complete, fail, cancel,
\* delete and clear that can be made on the current store.
AfterMutation ==
    LET tasks == _load_all(store)
    IN  {delete(tasks, id).tasks : id \in TaskIds}
        \cup {clear(tasks).tasks}
        \cup UNION {{start(tasks, id, t).tasks,
                     complete(tasks, id, t, Some("ok")).tasks,
                     fail(tasks, id, t, Some("boom")).tasks,
                     cancel(tasks, id, t).tasks} :
                       id \in TaskIds, t \in ClockReadings(MaxTime)}

\* C13: every stored task has a priority from 1 to 5; add stores 1 for an
\* argument below 1, 5 for one above 5, the argument itself in between and
\* the configured default when there is none, and always returns a task;
\* start, complete, fail, cancel, delete and clear leave the priority of
\* every task they keep as it was.
C13_PriorityInRange ==
    /\ \A i \in 1..Len(store) : store[i].priority \in 1..5
    /\ store_exists =>
         \A p \in {None} \cup {Some(n) : n \in (0 - 1)..7},
            d \in DepLists(next_id), t \in ClockReadings(MaxTime) :
           LET r == add(store, next_id, t, p, << >>, d, None, config)
           IN  /\ r.ret # None
               /\ r.ret[1].priority =
                    IF p = None THEN config.default_priority
                    ELSE IF p[1] < 1 THEN 1
                    ELSE IF p[1] > 5 THEN 5 ELSE p[1]
               /\ r.tasks[Len(r.tasks)].priority = r.ret[1].priority
    /\ \A new \in AfterMutation :
         \A j \in 1..Len(new), i \in 1..Len(store) :
            new[j].id = store[i].id => new[j].priority = store[i].priority

\* A task added with priority 0 and one added with priority 7, stored with
\* 1 and 5; the first has since been started and completed.
C13_Witness ==
    \E i, j \in 1..Len(store) :
        /\ store[i].priority = 1
        /\ store[j].priority = 5
        /\ store[i].status = DONE

\* The last n elements of s, all of them when there are fewer.
LastN(s, n) == SubSeq(s, Len(s) - Min(n, Len(s)) + 1, Len(s))

\* The tasks with the given status (when given) and the given tag among
\* their tags (when given), in store order.
Matches(tasks, status, tag) ==
    SelectSeq(tasks, LAMBDA x :
        /\ status # None => x.status = status[1]
        /\ tag # None => \E k \in 1..Len(x.tags) : x.tags[k] = tag[1])

\* C14: for every status, tag and limit N >= 0, list returns at most N
\* tasks, namely the last N (all, when there are fewer) of the stored tasks
\* that match the status and the tag, in store order.
C14_ListLastN ==
    \A st \in StatusArgs, tag \in TagArgs, n \in LimitArgs :
        LET tasks == _load_all(store)
            got == list(tasks, st, tag, n).ret[1]
        IN  /\ Len(got) <= n
            /\ got = LastN(Matches(tasks, st, tag), n)

\* C15: a task is created with started_at and completed_at null;
\* completed_at changes only from null, in a step that takes the task into
\* DONE or FAILED, and so never again; started_at changes only in a
\* successful start (PENDING or BLOCKED to RUNNING), and a start overwrites
\* an earlier started_at only for a task that fail sent back to PENDING.
C15_Timestamps ==
    [][\A id \in TaskIds :
          LET i == _find(id, store)
              j == _find(id, store')
          IN  /\ i = 0 /\ j # 0
                   => /\ store'[j].started_at = None
                      /\ store'[j].completed_at = None
              /\ i # 0 /\ j # 0
                   => /\ store'[j].completed_at # store[i].completed_at
                           => /\ store[i].completed_at = None
                              /\ store[i].status \notin {DONE, FAILED}
                              /\ store'[j].status \in {DONE, FAILED}
                      /\ store'[j].started_at # store[i].started_at
                           => /\ store'[j].started_at # None
                              /\ store[i].status \in {PENDING, BLOCKED}
                              /\ store'[j].status = RUNNING
                              /\ store[i].started_at # None
                                   => /\ store[i].status = PENDING
                                      /\ store[i].retries >= 1]_vars

\* A task started again after a failed attempt, at a later reading of the
\* clock than its creation: RUNNING, one retry used, completed_at null.
C15_Witness ==
    \E i \in 1..Len(store) :
        /\ store[i].status = RUNNING
        /\ store[i].retries = 1
        /\ store[i].error = Some("boom")
        /\ store[i].created_at = 0
        /\ store[i].started_at = Some(1)
        /\ store[i].completed_at = None

\* A call that wrote nothing: the file holds the same records, in the same
\* order and with the same values, and the tasks in memory are those loaded.
NothingAltered(r, tasks) ==
    /\ ~ r.saved
    /\ r.tasks = tasks
    /\ StoreAfter(r) = store

\* C16: get, list, next, stats, overdue, export and count, with any
\* arguments and on any store, leave the persisted records as they were.
C16_QueriesAlterNothing ==
    store_exists =>
      LET tasks == _load_all(store)
      IN  /\ \A id \in TaskIds : NothingAltered(get(tasks, id), tasks)
          /\ \A st \in StatusArgs, tag \in TagArgs, n \in LimitArgs :
                NothingAltered(list(tasks, st, tag, n), tasks)
          /\ NothingAltered(next(tasks), tasks)
          /\ NothingAltered(stats(tasks), tasks)
          /\ \A t \in ClockReadings(MaxTime) :
                NothingAltered(overdue(tasks, t), tasks)
          /\ \A fmt \in Formats : NothingAltered(export(tasks, fmt), tasks)
          /\ NothingAltered(count(tasks), tasks)

\* A store on which the queries have something to return: two tasks, one
\* that next selects, one past its deadline, one PENDING with the tag "ops".
C16_Witness ==
    LET tasks == _load_all(store)
    IN  /\ Len(tasks) = 2
        /\ next(tasks).ret # None
        /\ overdue(tasks, now).ret[1] # << >>
        /\ list(tasks, Some(PENDING), Some("ops"), 1).ret[1] # << >>
        /\ get(tasks, 2).ret # None
        /\ \E i \in 1..2 : tasks[i].status = DONE

\* C17: stats returns, under each of the five statuses, the number of
\* stored tasks with that status, and under "total" the number of stored
\* tasks; the five counts add up to the total.
C17_Stats ==
    LET tasks == _load_all(store)
        s == stats(tasks).ret[1]
    IN  /\ DOMAIN s = Statuses \cup {"total"}
        /\ \A st \in Statuses :
              s[st] = Cardinality({i \in 1..Len(tasks) : tasks[i].status = st})
        /\ s["total"] = Len(tasks)
        /\ s[PENDING] + s[RUNNING] + s[DONE] + s[FAILED] + s[BLOCKED]
             = s["total"]

\* A store with two tasks of one status: both were started and completed,
\* and stats counts 2 under DONE and 0 under the four other statuses.
C17_Witness ==
    LET s == stats(_load_all(store)).ret[1]
    IN  /\ s["total"] = 2
        /\ s[DONE] = 2
        /\ s[PENDING] = 0

\* Every add that returned a task and every start that returned one shows
\* in the store: the added ids are stored, the started tasks are RUNNING
\* with started_at set.
NoLostUpdate ==
    /\ \A id \in 1..(next_id - 1) : StatusIn(store, id) # "absent"
    /\ \A id \in observed.started :
          /\ StatusIn(store, id) = RUNNING
          /\ store[_find(id, store)].started_at # None

\* C18: as long as no caller has written the file while another caller was
\* between its read and its write, no successful add or start is lost; a
\* lost update needs such an interleaving, and with one there is a
\* reachable store that has lost both a returned add and a returned start.
C18_LostOnlyWhenInterleaved ==
    observed.overlapped \/ NoLostUpdate

\* An add and a start that returned success are both gone: an id handed
\* out is not stored, and a task a caller was given as RUNNING is stored
\* PENDING and never started.
C18_Witness ==
    /\ \E id \in 1..(next_id - 1) : StatusIn(store, id) = "absent"
    /\ \E id \in observed.started :
          /\ StatusIn(store, id) = PENDING
          /\ store[_find(id, store)].started_at = None

\* The stored ids that the stored tasks with ids in S depend on.
StoredDeps(S) ==
    UNION {{store[i].depends_on[k] : k \in 1..Len(store[i].depends_on)} :
              i \in {j \in 1..Len(store) : store[j].id \in S}}
    \cap {store[i].id : i \in 1..Len(store)}

RECURSIVE ReachWithin(_, _)
\* The stored ids reached from S along depends_on in 1 to n steps.
ReachWithin(S, n) ==
    IF n = 0 THEN {}
    ELSE StoredDeps(S) \cup ReachWithin(StoredDeps(S), n - 1)

Reaches(a) == ReachWithin({a}, Len(store))

\* The tasks on a dependency cycle through a, a included.
Participants(a) == {b \in Reaches(a) : a \in Reaches(b)}

\* a is on a dependency cycle of stored tasks that are all BLOCKED.
OnBlockedCycle(a) ==
    /\ a \in Reaches(a)
    /\ \A b \in Participants(a) : StatusIn(store, b) = BLOCKED

C20_NoStaleBlocked ==
    \A i \in 1..Len(store) :
        store[i].status = BLOCKED =>
          /\ store[i].depends_on # << >>
          /\ \E k \in 1..Len(store[i].depends_on) :
                StatusIn(store, store[i].depends_on[k]) # DONE

\* A BLOCKED task with two stored dependencies, one DONE and one RUNNING:
\* one completion has gone by and the task rightly waits for the other.
C20_Witness ==
    \E i \in 1..Len(store) :
        /\ store[i].status = BLOCKED
        /\ Len(store[i].depends_on) = 2
        /\ StatusIn(store, store[i].depends_on[1]) = DONE
        /\ StatusIn(store, store[i].depends_on[2]) = RUNNING

\* The budget of task x holds in a store: retries within limit, and below
\* it while the task can still be attempted.
WithinBudget(x, limit) ==
    /\ x.retries <= limit
    /\ x.status \in {PENDING, BLOCKED, RUNNING} => x.retries < limit

\* What a step does to the retries of the stored tasks, against the limit
\* given for each: the counter never goes down, a failed attempt that is
\* retried stays below the limit, and the attempt that ends in FAILED is
\* the one that reaches it.
BudgetStep(limit(_)) ==
    \A i \in 1..Len(store) :
        LET j == _find(store[i].id, store')
        IN  j # 0 =>
              /\ store'[j].retries >= store[i].retries
              /\ store[i].status = RUNNING /\ store'[j].status = PENDING
                   => /\ store'[j].retries = store[i].retries + 1
                      /\ store'[j].retries < limit(store[i])
              /\ store[i].status = RUNNING /\ store'[j].status = FAILED
                   => /\ store'[j].retries = store[i].retries + 1
                      /\ store'[j].retries = limit(store[i])

\* C21 as stated: every task has retries <= max_retries, every PENDING,
\* BLOCKED or RUNNING task has retries < max_retries, retries never
\* decreases, and fail makes a task FAILED on the call that brings retries
\* to max_retries.
C21_RetryBudget ==
    [][/\ \A i \in 1..Len(store') :
             WithinBudget(store'[i], store'[i].max_retries)
       /\ BudgetStep(LAMBDA x : x.max_retries)]_vars

\* C21 as amended: the same with the larger of max_retries and 1 as the
\* limit; a task with max_retries below 1 is FAILED by its first failed
\* attempt, with retries = 1.
C21_RetryBudgetAtLeastOne ==
    [][/\ \A i \in 1..Len(store') :
             WithinBudget(store'[i], Max(store'[i].max_retries, 1))
       /\ BudgetStep(LAMBDA x : Max(x.max_retries, 1))]_vars

\* A budget of 3 used up by one task and nearly by another: the first is
\* FAILED by its third failed attempt, the second waits for its third
\* attempt with two failures behind it.
C21_Witness ==
    /\ Len(store) = 2
    /\ store[1].max_retries = 3
    /\ store[1].status = FAILED
    /\ store[1].retries = 3
    /\ store[1].error = Some("boom")
    /\ store[2].status = PENDING
    /\ store[2].retries = 2

\* The call changed the records at the positions of S at most: as many
\* tasks as before, the same id at every position, every record outside S
\* as it was, in memory and in the file written.
OnlyChanged(r, tasks, S) ==
    /\ r.saved
    /\ Len(r.tasks) = Len(tasks)
    /\ \A j \in 1..Len(tasks) :
          /\ r.tasks[j].id = tasks[j].id
          /\ j \notin S => r.tasks[j] = tasks[j]
    /\ StoreAfter(r) = r.tasks

\* C22: add leaves every stored record as it was and puts the new record
\* last; a successful start, fail or cancel changes fields of the target
\* only; a successful complete changes fields of the target and, of the
\* tasks that depend on it and were BLOCKED, the status to PENDING and
\* nothing else; all four keep the ids and the order of the store.
C22_MutationsKeepTheRest ==
    LET tasks == _load_all(store)
    IN  /\ store_exists =>
              \A p \in PriorityArgs, d \in DepLists(next_id),
                 t \in ClockReadings(MaxTime) :
                LET r == add(store, next_id, t, p, << >>, d, None, config)
                IN  /\ Len(r.tasks) = Len(store) + 1
                    /\ SubSeq(r.tasks, 1, Len(store)) = store
                    /\ r.tasks[Len(r.tasks)].id = next_id
                    /\ StatusIn(store, next_id) = "absent"
        /\ \A id \in TaskIds, t \in ClockReadings(MaxTime) :
              LET i == _find(id, tasks)
                  s == start(tasks, id, t)
                  f == fail(tasks, id, t, Some("boom"))
                  c == cancel(tasks, id, t)
                  d == complete(tasks, id, t, Some("ok"))
                  promoted == {j \in 1..Len(tasks) : d.tasks[j] # tasks[j]}
                                \ {i}
              IN  /\ s.saved => OnlyChanged(s, tasks, {i})
                  /\ f.saved => OnlyChanged(f, tasks, {i})
                  /\ c.saved => OnlyChanged(c, tasks, {i})
                  /\ d.saved =>
                        /\ OnlyChanged(d, tasks, {i} \cup promoted)
                        /\ \A j \in promoted :
                              /\ tasks[j].status = BLOCKED
                              /\ d.tasks[j] =
                                    [tasks[j] EXCEPT !.status = PENDING]
                              /\ \E k \in 1..Len(tasks[j].depends_on) :
                                    tasks[j].depends_on[k] = id

\* Three stored tasks on which every one of the calls has something to
\* keep: the first is RUNNING, the second BLOCKED on it, the third
\* PENDING; completing the first promotes the second and leaves the
\* third alone, starting the third leaves the two others alone.
C22_Witness ==
    LET tasks == _load_all(store)
    IN  /\ Len(tasks) = 3
        /\ tasks[1].status = RUNNING
        /\ tasks[2].status = BLOCKED
        /\ tasks[2].depends_on = <<tasks[1].id>>
        /\ tasks[3].status = PENDING
        /\ tasks[3].depends_on = << >>
        /\ complete(tasks, tasks[1].id, now, Some("ok")).tasks[2].status
             = PENDING
        /\ start(tasks, tasks[3].id, now).tasks[3].status = RUNNING

\* C23: when start is applied only to the task next() returned and delete
\* and clear are never called, every RUNNING and every DONE task has all
\* its depends_on ids in the store, on tasks that are DONE.
C23_ExecutorRespectsDependencies ==
    \A i \in 1..Len(store) :
        store[i].status \in {RUNNING, DONE}
          => AllDepsDone(store[i].depends_on, store)

\* The executor ran a dependent after its dependency: the first task is
\* DONE, the second depends on it, failed once, was picked again and is
\* RUNNING; the third names an id no task has and is still BLOCKED.
C23_Witness ==
    /\ Len(store) = 3
    /\ store[1].status = DONE
    /\ store[2].depends_on = <<store[1].id>>
    /\ store[2].status = RUNNING
    /\ store[2].retries = 1
    /\ store[3].depends_on = <<UnknownId>>
    /\ store[3].status = BLOCKED

\* Every stored task is DONE.
AllDone == \A i \in 1..Len(store) : store[i].status = DONE

\* At the start of a round next() returns a task unless every stored
\* task is DONE.
RoundFindsWork ==
    store_exists /\ procs["a"].pc = "idle" /\ ~ AllDone
      => next(_load_all(store)).ret # None

\* C24: with every task added on dependencies that are stored at the add
\* and nothing called but rounds of t = next(), start(t), complete(t) that
\* keep being taken, next() returns a task as long as some task is not
\* DONE, and from some moment on every task is DONE.
C24_ExecutorDrainsQueue == []RoundFindsWork /\ <>[]AllDone

\* The queue drained: three tasks, the third added on the two others and
\* BLOCKED until the second completed, all DONE, the caller between rounds.
C24_Witness ==
    /\ Len(store) = 3
    /\ AllDone
    /\ store[3].depends_on = <<store[1].id, store[2].id>>
    /\ store[3].created_at < store[2].completed_at[1]
    /\ procs["a"].pc = "idle"

\* What C25 says of one call add_subtask(parent_id, name, **kwargs) on the
\* current store.
SubtaskContract(parent_id, kwargs) ==
    LET tasks == _load_all(store)
        i == _find(parent_id, tasks)
        r == add_subtask(store, next_id, now, parent_id, kwargs, config)
        n == Len(tasks)
    IN  IF i = 0
        THEN /\ r.ret = None
             /\ r.exc = None
             /\ StoreAfter(r) = store
        ELSE /\ r.exc = None
             /\ r.ret # None
             /\ StatusIn(tasks, r.ret[1].id) = "absent"
             /\ StoreAfter(r) =
                  Append([tasks EXCEPT ![i].subtasks = Append(@, r.ret[1].id)],
                         r.ret[1])
             /\ wants_parent(kwargs) =>
                  /\ r.ret[1].depends_on = <<parent_id>>
                  /\ r.ret[1].status =
                       IF tasks[i].status = DONE THEN PENDING ELSE BLOCKED

\* C25: add_subtask on a stored parent creates exactly one task, appends
\* its id to the parent's subtasks and changes nothing else; called with
\* depends_on_parent set, the new task's depends_on is [parent_id] and it
\* is BLOCKED unless the parent is DONE; on an absent parent it returns
\* the empty result and leaves the store as it was.
C25_AddSubtask ==
    store_exists =>
      \A parent_id \in TaskIds, kwargs \in KwargsChoices :
         SubtaskContract(parent_id, kwargs)

\* The part of C25 about calls that do not pass depends_on_parent: one new
\* task, its id appended to the parent's subtasks, nothing else changed,
\* and nothing at all for an absent parent.
C25_AddSubtaskPlain ==
    store_exists =>
      \A parent_id \in TaskIds, kwargs \in KwargsChoices :
         kwargs.depends_on_parent = None => SubtaskContract(parent_id, kwargs)

\* A parent with two subtasks, in the order they were added, one of them
\* with priority 5; the parent is DONE.
C25_Witness ==
    /\ Len(store) = 3
    /\ store[1].subtasks = <<store[2].id, store[3].id>>
    /\ store[1].status = DONE
    /\ store[3].priority = 5
    /\ store[2].subtasks = << >>

====
